---- MODULE Spec2Model ----
(***************************************************************************)
(* Model of scripts/tmux-api.py: an HTTP handler that lists, creates and   *)
(* kills tmux sessions by running the tmux binary.                         *)
(*                                                                         *)
(* Text (session names, request paths, tmux output) is a sequence of       *)
(* one-character strings, so that stripping, pattern matching, URL         *)
(* splitting and the parsing of the `tmux ls` output are computed the way  *)
(* the Python code computes them.                                          *)
(***************************************************************************)
EXTENDS Integers, Sequences, FiniteSets, TLC

\* ------------------------------------------------------------------ bounds
\* Longest session name a request body carries and longest text appended
\* to a route prefix in a request path.
MaxLen == 1
\* Most sessions the multiplexer hosts at once.
MaxSessions == 2

\* ------------------------------------------------------------- characters
Digits == {"0", "1", "2", "3", "4", "5", "6", "7", "8", "9"}
Letters == {"a", "e", "h", "i", "k", "l", "n", "o", "p", "s", "u", "w", "N"}
\* The characters of the model's alphabet that [A-Za-z0-9_.-] accepts.
AllowedChars == Letters \cup Digits \cup {"_", ".", "-"}
\* str.strip() with no argument removes whitespace.
Whitespace == {" ", "\n", "\t"}

\* ------------------------------------------------------------ text helpers
RECURSIVE LStrip(_)
LStrip(s) ==
  IF s # <<>> /\ Head(s) \in Whitespace THEN LStrip(Tail(s)) ELSE s

RECURSIVE RStrip(_)
RStrip(s) ==
  IF s # <<>> /\ s[Len(s)] \in Whitespace
  THEN RStrip(SubSeq(s, 1, Len(s) - 1))
  ELSE s

\* str.strip()
Strip(s) == RStrip(LStrip(s))

\* Index of the first c in s at or after position from; 0 when there is none
\* (str.find, 1-based).
Find(s, c, from) ==
  LET hits == {i \in from..Len(s) : s[i] = c}
  IN IF hits = {} THEN 0 ELSE CHOOSE i \in hits : \A j \in hits : i <= j

\* Index of the last c in s; 0 when there is none (str.rfind, 1-based).
RFind(s, c) ==
  LET hits == {i \in 1..Len(s) : s[i] = c}
  IN IF hits = {} THEN 0 ELSE CHOOSE i \in hits : \A j \in hits : i >= j

\* s.split(c, 1)[0]
CutAt(s, c) ==
  LET i == Find(s, c, 1) IN IF i = 0 THEN s ELSE SubSeq(s, 1, i - 1)

\* s.split(c): the pieces of s between the occurrences of character c.
RECURSIVE SplitOn(_, _)
SplitOn(s, c) ==
  LET i == Find(s, c, 1)
  IN IF i = 0
     THEN <<s>>
     ELSE <<SubSeq(s, 1, i - 1)>> \o SplitOn(SubSeq(s, i + 1, Len(s)), c)

StartsWith(s, pre) ==
  Len(s) >= Len(pre) /\ SubSeq(s, 1, Len(pre)) = pre

\* str.isdigit() on the model's alphabet
IsDigit(s) == s # <<>> /\ \A i \in 1..Len(s) : s[i] \in Digits

DigitSeq == <<"0", "1", "2", "3", "4", "5", "6", "7", "8", "9">>
DigitVal(c) == (CHOOSE i \in 1..10 : DigitSeq[i] = c) - 1

\* int(s) for a string of digits
RECURSIVE ToInt(_)
ToInt(s) ==
  IF s = <<>> THEN 0
  ELSE 10 * ToInt(SubSeq(s, 1, Len(s) - 1)) + DigitVal(s[Len(s)])

\* The decimal digits of a natural number, as tmux prints a count.
RECURSIVE IntToStr(_)
IntToStr(n) ==
  IF n < 10 THEN <<DigitSeq[n + 1]>>
  ELSE IntToStr(n \div 10) \o <<DigitSeq[(n % 10) + 1]>>

RECURSIVE SetToSeq(_)
SetToSeq(S) ==
  IF S = {} THEN <<>>
  ELSE LET x == CHOOSE y \in S : TRUE IN <<x>> \o SetToSeq(S \ {x})

RECURSIVE Flatten(_)
Flatten(ss) == IF ss = <<>> THEN <<>> ELSE Head(ss) \o Flatten(Tail(ss))

\* All sequences over alphabet A of length at most n.
RECURSIVE SeqsUpTo(_, _)
SeqsUpTo(A, n) ==
  IF n = 0 THEN {<<>>}
  ELSE LET shorter == SeqsUpTo(A, n - 1)
       IN shorter \cup {Append(s, c) : s \in shorter, c \in A}

\* ------------------------------------------------------ name validation
\* The pattern without its anchors, as re.search would apply it: some
\* character of the name is an allowed one.
SESSION_RE_Unanchored(name) ==
  \E i \in 1..Len(name) : name[i] \in AllowedChars

\* SESSION_RE.match(name): ^[A-Za-z0-9_.-]+$ .  In Python "$" matches at the
\* end of the string and also just before a newline that ends the string.
SESSION_RE(name) ==
  LET core == IF name # <<>> /\ name[Len(name)] = "\n"
              THEN SubSeq(name, 1, Len(name) - 1)
              ELSE name
  IN core # <<>> /\ \A i \in 1..Len(core) : core[i] \in AllowedChars

\* The text the pattern is meant to describe: one or more allowed characters
\* and nothing else.
MatchesPattern(s) == s # <<>> /\ \A i \in 1..Len(s) : s[i] \in AllowedChars

\* "not name or not SESSION_RE.match(name)"
InvalidName(name) == name = <<>> \/ ~SESSION_RE(name)

\* ------------------------------------------------------------- urlparse
\* urllib.parse._splitparams: the parameters start at the first ";" of the
\* last path segment.
SplitParams(url) ==
  LET slash == RFind(url, "/")
      i == IF slash > 0 THEN Find(url, ";", slash) ELSE Find(url, ";", 1)
  IN IF i = 0 THEN url ELSE SubSeq(url, 1, i - 1)

\* urlparse(self.path).path for an origin-form request target (one that
\* starts with a single "/"): the fragment, then the query, then the
\* parameters of the last segment are split off.
UrlPath(target) == SplitParams(CutAt(CutAt(target, "#"), "?"))

\* ------------------------------------------------- the multiplexer (tmux)
\* A session is [name, windows, attached]: its name, its number of windows
\* and the number of clients attached to it.  The four tmux commands the
\* program runs, by their exit code, their output and their effect on the
\* set S of sessions.

Names(S) == {s.name : s \in S}

\* One line of `tmux ls -F "#{session_name}\t#{session_windows}\t#{session_attached}"`
SessionLine(s) ==
  s.name \o <<"\t">> \o IntToStr(s.windows) \o <<"\t">> \o IntToStr(s.attached)
         \o <<"\n">>

\* tmux ls: exits non-zero when no server is running, which is the case
\* when there is no session; otherwise one line per session.
TmuxLs(S) ==
  IF S = {}
  THEN [rc |-> 1, out |-> <<>>, sessions |-> S]
  ELSE LET order == SetToSeq(S)
       IN [rc |-> 0,
           out |-> Flatten([i \in 1..Len(order) |-> SessionLine(order[i])]),
           sessions |-> S]

\* tmux has-session -t name: exit code 0 exactly when the session exists.
TmuxHasSession(S, name) ==
  [rc |-> IF name \in Names(S) THEN 0 ELSE 1, out |-> <<>>, sessions |-> S]

\* tmux new-session -d -s name: a detached session with one window; a
\* duplicate name is refused.
TmuxNewSession(S, name) ==
  IF name \in Names(S)
  THEN [rc |-> 1, out |-> <<>>, sessions |-> S]
  ELSE [rc |-> 0, out |-> <<>>,
        sessions |-> S \cup {[name |-> name, windows |-> 1, attached |-> 0]}]

\* tmux kill-session -t name: removes the session; fails when it is absent.
TmuxKillSession(S, name) ==
  IF name \in Names(S)
  THEN [rc |-> 0, out |-> <<>>, sessions |-> {s \in S : s.name # name}]
  ELSE [rc |-> 1, out |-> <<>>, sessions |-> S]

Tmux(cmd, name, S) ==
  CASE cmd = "ls" -> TmuxLs(S)
    [] cmd = "has-session" -> TmuxHasSession(S, name)
    [] cmd = "new-session" -> TmuxNewSession(S, name)
    [] cmd = "kill-session" -> TmuxKillSession(S, name)

\* What can happen to one invocation of the binary: "run" - it runs and does
\* what the command does; "fail" - it exits non-zero for another reason and
\* changes nothing; "oserror" - the binary cannot be executed.
Outcomes == {"run", "fail", "oserror"}

\* A finished invocation, as subprocess.check_output / check_call report it:
\* CalledProcessError when the exit code is not 0.
Checked(r) ==
  [exc |-> IF r.rc = 0 THEN "none" ELSE "CalledProcessError",
   out |-> r.out, sessions |-> r.sessions]

\* subprocess.check_output / subprocess.check_call on a tmux command: OSError
\* when the binary cannot be run.
Subprocess(cmd, name, S, o) ==
  IF o = "oserror" THEN [exc |-> "OSError", out |-> <<>>, sessions |-> S]
  ELSE IF o = "fail" THEN Checked([rc |-> 1, out |-> <<>>, sessions |-> S])
  ELSE Checked(Tmux(cmd, name, S))

\* ------------------------------------------------------- process helper
Call(cmd, name) == [cmd |-> cmd, name |-> name]

\* The lines of out.strip().splitlines(), for a text s already stripped.
DropLastEmpty(pieces) ==
  IF pieces[Len(pieces)] = <<>>
  THEN SubSeq(pieces, 1, Len(pieces) - 1)
  ELSE pieces

SplitLines(s) == IF s = <<>> THEN <<>> ELSE DropLastEmpty(SplitOn(s, "\n"))

\* The loop body reading the window count from the wrong field.
ParseFields_WrongField(parts) ==
  IF Len(parts) < 3 THEN <<>>
  ELSE <<[name |-> parts[1],
          windows |-> IF IsDigit(parts[3]) THEN ToInt(parts[3]) ELSE 0,
          attached |-> (parts[3] = <<"1">>)]>>

\* The body of the loop of list_sessions, for the fields of one line: no
\* entry for a line of fewer than three fields.
ParseFields(parts) ==
  IF Len(parts) < 3 THEN <<>>
  ELSE <<[name |-> parts[1],
          windows |-> IF IsDigit(parts[2]) THEN ToInt(parts[2]) ELSE 0,
          attached |-> (parts[3] = <<"1">>)]>>

RECURSIVE ParseLines(_)
ParseLines(lines) ==
  IF lines = <<>> THEN <<>>
  ELSE ParseFields(SplitOn(Head(lines), "\t")) \o ParseLines(Tail(lines))

\* list_sessions() once the command has ended as r: [exc, val, calls]
ListResult(r) ==
  IF r.exc = "CalledProcessError"
  THEN [exc |-> "none", val |-> <<>>, calls |-> <<Call("ls", <<>>)>>]
  ELSE IF r.exc # "none"
  THEN [exc |-> r.exc, val |-> <<>>, calls |-> <<Call("ls", <<>>)>>]
  ELSE [exc |-> "none", val |-> ParseLines(SplitLines(Strip(r.out))),
        calls |-> <<Call("ls", <<>>)>>]

list_sessions(S, o) == ListResult(Subprocess("ls", <<>>, S, o))

\* has_session(name) once the command has ended as r: [exc, val]
HasResult(r) ==
  IF r.exc = "CalledProcessError" THEN [exc |-> "none", val |-> FALSE]
  ELSE IF r.exc # "none" THEN [exc |-> r.exc, val |-> FALSE]
  ELSE [exc |-> "none", val |-> TRUE]

has_session(name, S, o) == HasResult(Subprocess("has-session", name, S, o))

\* create_session returning False after new-session has run.
NewResult_ReportsFalse(name, r) ==
  [exc |-> r.exc, val |-> FALSE, sessions |-> r.sessions,
   calls |-> <<Call("has-session", name), Call("new-session", name)>>]

\* The second half of create_session: check_call(new-session) ended as r.
NewResult(name, r) ==
  [exc |-> r.exc, val |-> (r.exc = "none"), sessions |-> r.sessions,
   calls |-> <<Call("has-session", name), Call("new-session", name)>>]

\* create_session without its has_session test: new-session is always run.
CreateAfter_Unchecked(name, S, h, o2) ==
  NewResult(name, Subprocess("new-session", name, S, o2))

\* create_session(name) once has_session(name) has answered h:
\* [exc, val, sessions, calls]
CreateAfter(name, S, h, o2) ==
  IF h.exc # "none"
  THEN [exc |-> h.exc, val |-> FALSE, sessions |-> S,
        calls |-> <<Call("has-session", name)>>]
  ELSE IF h.val
  THEN [exc |-> "none", val |-> FALSE, sessions |-> S,
        calls |-> <<Call("has-session", name)>>]
  ELSE NewResult(name, Subprocess("new-session", name, S, o2))

create_session(name, S, o1, o2) ==
  CreateAfter(name, S, has_session(name, S, o1), o2)

\* kill_session(name) once the command has ended as r: [exc, sessions, calls]
KillResult(name, r) ==
  [exc |-> r.exc, sessions |-> r.sessions,
   calls |-> <<Call("kill-session", name)>>]

kill_session(name, S, o) ==
  KillResult(name, Subprocess("kill-session", name, S, o))

\* ----------------------------------------------------------- HTTP handler
SessionsPath == <<"/", "s", "e", "s", "s", "i", "o", "n", "s">>
SessionsPrefix == SessionsPath \o <<"/">>

\* A response: status 0 and kind "none" when the handler raised and sent
\* nothing (error then names the exception).
Response(status, kind, error, name, created, list) ==
  [status |-> status, kind |-> kind, error |-> error, name |-> name,
   created |-> created, sessions |-> list]

NoResponse == Response(0, "none", "", <<>>, FALSE, <<>>)

\* An exception no handler method catches: the request ends without a response.
Uncaught(exc) == Response(0, "none", exc, <<>>, FALSE, <<>>)

\* self._json(code, {"error": e})
JsonError(code, e) == Response(code, "error", e, <<>>, FALSE, <<>>)
\* self._json(200, {"sessions": list})
JsonSessions(list) == Response(200, "sessions", "", <<>>, FALSE, list)
\* self._json(200, {"ok": True, "name": name, "created": created})
JsonCreated(name, created) == Response(200, "created", "", name, created, <<>>)
\* self._json(200, {"ok": True, "name": name})
JsonDeleted(name) == Response(200, "deleted", "", name, FALSE, <<>>)
\* BaseHTTPRequestHandler.send_error(501): an HTML error page, not JSON.
Unsupported == Response(501, "html", "Unsupported method", <<>>, FALSE, <<>>)

\* JSON values of the "name" member: absent, null, or a string.
JAbsent == [t |-> "absent", s |-> <<>>]
JNull == [t |-> "null", s |-> <<>>]
JStr(s) == [t |-> "str", s |-> s]

\* A request body: kind "none" (no Content-Length, or one that is <= 0),
\* "badlength" (a Content-Length that is no number), "malformed" (bytes that
\* are not JSON), "nonobject" (JSON that is no object) or "object".
Body(kind, name) == [kind |-> kind, name |-> name]
NoBody == Body("none", JAbsent)

\* _read_json without its try/except around json.loads.
read_json_Uncaught(body) ==
  IF body.kind = "badlength"
  THEN [exc |-> "ValueError", isdict |-> FALSE, name |-> JAbsent]
  ELSE IF body.kind = "malformed"
  THEN [exc |-> "JSONDecodeError", isdict |-> FALSE, name |-> JAbsent]
  ELSE IF body.kind = "none"
  THEN [exc |-> "none", isdict |-> TRUE, name |-> JAbsent]
  ELSE IF body.kind = "nonobject"
  THEN [exc |-> "none", isdict |-> FALSE, name |-> JAbsent]
  ELSE [exc |-> "none", isdict |-> TRUE, name |-> body.name]

\* self._read_json(): [exc, isdict, name]
read_json(body) ==
  IF body.kind = "badlength"
  THEN [exc |-> "ValueError", isdict |-> FALSE, name |-> JAbsent]
  ELSE IF body.kind \in {"none", "malformed"}
  THEN [exc |-> "none", isdict |-> TRUE, name |-> JAbsent]
  ELSE IF body.kind = "nonobject"
  THEN [exc |-> "none", isdict |-> FALSE, name |-> JAbsent]
  ELSE [exc |-> "none", isdict |-> TRUE, name |-> body.name]

\* str(data.get("name", ""))
PyStr(v) ==
  IF v.t = "absent" THEN <<>>
  ELSE IF v.t = "null" THEN <<"N", "o", "n", "e">>
  ELSE v.s

\* The name without the call of strip().
PostName_Unstripped(v) == PyStr(v)

\* The name do_POST validates: str(data.get("name", "")).strip()
PostName(v) == Strip(PyStr(v))

Result(resp, S, calls) == [resp |-> resp, sessions |-> S, calls |-> calls]

\* do_GET on /sessions once list_sessions() has ended as r
GetResponse(S, r) ==
  IF r.exc # "none"
  THEN Result(Uncaught(r.exc), S, r.calls)
  ELSE Result(JsonSessions(r.val), S, r.calls)

do_GET(target, S, o) ==
  IF UrlPath(target) = SessionsPath
  THEN GetResponse(S, list_sessions(S, o))
  ELSE Result(JsonError(404, "not_found"), S, <<>>)

\* The try block of do_POST once create_session(name) has ended as c
CreateResponse(name, c) ==
  IF c.exc = "none"
  THEN Result(JsonCreated(name, c.val), c.sessions, c.calls)
  ELSE IF c.exc = "CalledProcessError"
  THEN Result(JsonError(500, "create_failed"), c.sessions, c.calls)
  ELSE Result(Uncaught(c.exc), c.sessions, c.calls)

\* do_POST on /sessions from the validation of the name on
PostValidated(name, S, o1, o2) ==
  IF InvalidName(name)
  THEN Result(JsonError(400, "invalid_name"), S, <<>>)
  ELSE CreateResponse(name, create_session(name, S, o1, o2))

\* do_POST on /sessions once self._read_json() has ended as data
PostData(data, S, o1, o2) ==
  IF data.exc # "none" THEN Result(Uncaught(data.exc), S, <<>>)
  ELSE IF ~data.isdict THEN Result(Uncaught("AttributeError"), S, <<>>)
  ELSE PostValidated(PostName(data.name), S, o1, o2)

do_POST(target, body, S, o1, o2) ==
  IF UrlPath(target) = SessionsPath
  THEN PostData(read_json(body), S, o1, o2)
  ELSE Result(JsonError(404, "not_found"), S, <<>>)

\* path.split("/sessions/", 1)[1] for a path that starts with "/sessions/"
DeleteName(path) == SubSeq(path, Len(SessionsPrefix) + 1, Len(path))

\* The try block of do_DELETE once kill_session(name) has ended as k
KillResponse(name, k) ==
  IF k.exc = "none"
  THEN Result(JsonDeleted(name), k.sessions, k.calls)
  ELSE IF k.exc = "CalledProcessError"
  THEN Result(JsonError(404, "not_found"), k.sessions, k.calls)
  ELSE Result(Uncaught(k.exc), k.sessions, k.calls)

\* do_DELETE on /sessions/{name} from the validation of the name on
DeleteValidated(name, S, o) ==
  IF InvalidName(name)
  THEN Result(JsonError(400, "invalid_name"), S, <<>>)
  ELSE KillResponse(name, kill_session(name, S, o))

\* do_DELETE for the path of the request target
DeletePath(path, S, o) ==
  IF StartsWith(path, SessionsPrefix)
  THEN DeleteValidated(DeleteName(path), S, o)
  ELSE Result(JsonError(404, "not_found"), S, <<>>)

do_DELETE(target, S, o) == DeletePath(UrlPath(target), S, o)

\* The do_* methods class Handler defines; BaseHTTPRequestHandler answers
\* every other method itself with send_error(501).
HandlerMethods == {"GET", "POST", "DELETE"}

\* ------------------------------------------------------------------ inputs
Alpha == <<"a", "l", "p", "h", "a">>
UnknownPath == <<"/", "u", "n", "k", "n", "o", "w", "n">>

\* Characters appended to a route prefix: an allowed one, a forbidden one,
\* and the ones urlparse and the router give a meaning.  A request target
\* holds no whitespace: the request line is split on it.
TargetChars == {"a", "!", "?", ";", "#", "/"}
Suffixes == SeqsUpTo(TargetChars, MaxLen)
Targets ==
  {SessionsPath \o s : s \in Suffixes}
    \cup {SessionsPrefix \o s : s \in Suffixes}
    \cup {SessionsPrefix \o Alpha \o s : s \in {<<>>, <<"!">>, <<"?", "a">>, <<";", "a">>}}
    \cup {SessionsPath \o <<"?", "a">>, UnknownPath, <<"/">>}

\* Characters of a name in a request body: an allowed one, two kinds of
\* whitespace and a forbidden one.
BodyChars == {"a", " ", "\n", "!"}
BodyNames ==
  SeqsUpTo(BodyChars, MaxLen)
    \cup {Alpha, <<" ">> \o Alpha, Alpha \o <<"\n">>, Alpha \o <<"!">>,
          <<"a", " ", "a">>}
Bodies ==
  {Body(k, JAbsent) : k \in {"none", "badlength", "malformed", "nonobject", "object"}}
    \cup {Body("object", JNull)}
    \cup {Body("object", JStr(n)) : n \in BodyNames}

\* POST requests: every body on the create route (plain and with a query),
\* and two bodies on every target.
PostInputs ==
  ({SessionsPath, SessionsPath \o <<"?", "a">>} \X Bodies)
    \cup (Targets \X {NoBody, Body("object", JStr(Alpha))})

Methods == {"GET", "POST", "DELETE", "PUT", "PATCH"}

\* Sessions created outside this program, present when it starts.
External == [name |-> <<"a">>, windows |-> 12, attached |-> 1]

\* ------------------------------------------------------------------- state
VARIABLES
  sessions,  \* the multiplexer's sessions
  pc,        \* "idle": waiting for a request; "done": a request was handled
  req,       \* the request just handled
  resp,      \* the response to it
  calls,     \* the external commands it ran, in order
  pre,       \* the sessions before it
  hist       \* what this program last did to session "alpha"

vars == <<sessions, pc, req, resp, calls, pre, hist>>

Request(method, target, body) ==
  [method |-> method, target |-> target, body |-> body]
NoRequest == Request("", <<>>, NoBody)

Init ==
  /\ sessions \in {{}, {External}}
  /\ pc = "idle"
  /\ req = NoRequest
  /\ resp = NoResponse
  /\ calls = <<>>
  /\ pre = {}
  /\ hist = "none"

\* What this program last did to session "alpha", after response rs.
NextHist(rs, h) ==
  IF rs.kind = "created" /\ rs.created /\ rs.name = Alpha THEN "created"
  ELSE IF rs.kind = "deleted" /\ rs.name = Alpha THEN "deleted"
  ELSE h

\* Each action is one request handled to its end: the method is dispatched
\* (handle_one_request looks up do_<METHOD>), the multiplexer is changed by
\* the commands run, the response is sent.
\* F: what may happen to an invocation of the binary.
GET(F) ==
  \E t \in Targets, o \in F :
    /\ pc = "idle"
    /\ "GET" \in HandlerMethods
    /\ \E r \in {do_GET(t, sessions, o)} :
         /\ Cardinality(r.sessions) <= MaxSessions
         /\ pc' = "done"
         /\ req' = Request("GET", t, NoBody)
         /\ resp' = r.resp
         /\ calls' = r.calls
         /\ sessions' = r.sessions
         /\ pre' = sessions
         /\ hist' = NextHist(r.resp, hist)

POST(F) ==
  \E in \in PostInputs, o1 \in F, o2 \in F :
    /\ pc = "idle"
    /\ "POST" \in HandlerMethods
    /\ \E r \in {do_POST(in[1], in[2], sessions, o1, o2)} :
         /\ Cardinality(r.sessions) <= MaxSessions
         /\ pc' = "done"
         /\ req' = Request("POST", in[1], in[2])
         /\ resp' = r.resp
         /\ calls' = r.calls
         /\ sessions' = r.sessions
         /\ pre' = sessions
         /\ hist' = NextHist(r.resp, hist)

DELETE(F) ==
  \E t \in Targets, o \in F :
    /\ pc = "idle"
    /\ "DELETE" \in HandlerMethods
    /\ \E r \in {do_DELETE(t, sessions, o)} :
         /\ Cardinality(r.sessions) <= MaxSessions
         /\ pc' = "done"
         /\ req' = Request("DELETE", t, NoBody)
         /\ resp' = r.resp
         /\ calls' = r.calls
         /\ sessions' = r.sessions
         /\ pre' = sessions
         /\ hist' = NextHist(r.resp, hist)

Other ==
  \E m \in Methods, t \in Targets :
    /\ pc = "idle"
    /\ m \notin HandlerMethods
    /\ \E r \in {Result(Unsupported, sessions, <<>>)} :
         /\ Cardinality(r.sessions) <= MaxSessions
         /\ pc' = "done"
         /\ req' = Request(m, t, NoBody)
         /\ resp' = r.resp
         /\ calls' = r.calls
         /\ sessions' = r.sessions
         /\ pre' = sessions
         /\ hist' = NextHist(r.resp, hist)

\* The handler object of a request is discarded: nothing of it is kept.
Finish ==
  /\ pc = "done"
  /\ pc' = "idle"
  /\ req' = NoRequest
  /\ resp' = NoResponse
  /\ calls' = <<>>
  /\ pre' = {}
  /\ UNCHANGED <<sessions, hist>>

\* Every invocation of the binary may run, exit non-zero or fail to start.
Next ==
  \/ GET(Outcomes)
  \/ POST(Outcomes)
  \/ DELETE(Outcomes)
  \/ Other
  \/ Finish

Spec == Init /\ [][Next]_vars

\* The binary is installed and every invocation does what its command does.
NextWorking ==
  \/ GET({"run"})
  \/ POST({"run"})
  \/ DELETE({"run"})
  \/ Other
  \/ Finish

SpecWorking == Init /\ [][NextWorking]_vars

\* The binary is installed; an invocation does what its command does or
\* exits non-zero for another reason.
NextInstalled ==
  \/ GET({"run", "fail"})
  \/ POST({"run", "fail"})
  \/ DELETE({"run", "fail"})
  \/ Other
  \/ Finish

SpecInstalled == Init /\ [][NextInstalled]_vars

TypeOK ==
  /\ pc \in {"idle", "done"}
  /\ Cardinality(sessions) <= MaxSessions
  /\ resp.status \in {0, 200, 400, 404, 500, 501}

\* ------------------------------------------------------------ properties
Done == pc = "done"

\* The request just handled is a POST routed to /sessions.
IsCreate == Done /\ req.method = "POST" /\ UrlPath(req.target) = SessionsPath
\* ... whose body is the JSON object {"name": s} for a string s.
IsCreateNamed == IsCreate /\ req.body.kind = "object" /\ req.body.name.t = "str"
\* The request just handled is a GET routed to /sessions.
IsList == Done /\ req.method = "GET" /\ UrlPath(req.target) = SessionsPath
\* The request just handled is a DELETE routed to /sessions/{name}.
IsKill ==
  Done /\ req.method = "DELETE" /\ StartsWith(UrlPath(req.target), SessionsPrefix)
\* The name such a DELETE carries in its path.
KillName == DeleteName(UrlPath(req.target))

InvalidNameResponse == JsonError(400, "invalid_name")
NotFoundResponse == JsonError(404, "not_found")
IsJson == resp.kind \in {"error", "sessions", "created", "deleted"}

\* C1, as stated: for every string s that does not match ^[A-Za-z0-9_.-]+$
\* (the empty string included), POST /sessions with body {"name": s} and
\* DELETE /sessions/{s} both answer 400 {"error":"invalid_name"}.
C1_AsStated ==
  /\ (/\ Done /\ req.method = "POST" /\ req.target = SessionsPath
      /\ req.body.kind = "object" /\ req.body.name.t = "str"
      /\ ~MatchesPattern(req.body.name.s))
       => resp = InvalidNameResponse
  /\ (/\ Done /\ req.method = "DELETE" /\ StartsWith(req.target, SessionsPrefix)
      /\ ~MatchesPattern(DeleteName(req.target)))
       => resp = InvalidNameResponse

\* C1, amended: POST /sessions with body {"name": s} answers 400
\* {"error":"invalid_name"} for every string s that is empty or does not match
\* the pattern once its leading and trailing whitespace is stripped; DELETE
\* answers 400 {"error":"invalid_name"} for every request target whose path
\* (the target without its fragment, query and parameters) is /sessions/
\* followed by a text that is empty or does not match the pattern.
C1_InvalidNameRejected ==
  /\ (IsCreateNamed /\ ~MatchesPattern(Strip(req.body.name.s)))
       => resp = InvalidNameResponse
  /\ (IsKill /\ ~MatchesPattern(KillName)) => resp = InvalidNameResponse

\* A POST whose name holds a forbidden character was answered invalid_name.
C1_Witness ==
  /\ IsCreateNamed
  /\ req.body.name.s = Alpha \o <<"!">>
  /\ resp = InvalidNameResponse

\* C2: every name passed to has-session, new-session or kill-session is
\* non-empty and matches ^[A-Za-z0-9_.-]+$, and a request answered
\* invalid_name has run no external command.
C2_OnlyValidNamesReachTmux ==
  /\ \A i \in 1..Len(calls) :
       calls[i].cmd \in {"has-session", "new-session", "kill-session"}
         => MatchesPattern(calls[i].name)
  /\ resp = InvalidNameResponse => calls = <<>>
  /\ (IsCreateNamed /\ ~SESSION_RE(Strip(req.body.name.s))) => calls = <<>>
  /\ (IsKill /\ ~SESSION_RE(KillName)) => calls = <<>>

\* A POST whose name ends in a newline ran has-session and new-session.
C2_Witness ==
  /\ IsCreateNamed
  /\ req.body.name.s = Alpha \o <<"\n">>
  /\ calls = <<Call("has-session", Alpha), Call("new-session", Alpha)>>

\* C3: with a working multiplexer, POST /sessions with a valid name that no
\* session has answers 200 with created: true, a POST with a name that a
\* session has answers 200 with ok: true and created: false and changes
\* nothing, and in both cases exactly one session has that name afterwards.
C3_CreateTwiceIdempotent ==
  (IsCreateNamed /\ MatchesPattern(req.body.name.s)) =>
    /\ Cardinality({s \in sessions : s.name = req.body.name.s}) = 1
    /\ IF req.body.name.s \in Names(pre)
       THEN resp = JsonCreated(req.body.name.s, FALSE) /\ sessions = pre
       ELSE resp = JsonCreated(req.body.name.s, TRUE)

\* The second POST for "alpha", after the first one created it.
C3_Witness ==
  /\ IsCreateNamed
  /\ req.body.name.s = Alpha
  /\ hist = "created"
  /\ resp = JsonCreated(Alpha, FALSE)

\* C4, as stated: every unrouted path/method combination answers 404
\* {"error":"not_found"}: GET and POST on a path other than /sessions, DELETE
\* on a path not of the form /sessions/{name}, and every other method.
C4_AsStated ==
  (/\ Done
   /\ \/ req.method \notin {"GET", "POST", "DELETE"}
      \/ req.method \in {"GET", "POST"} /\ UrlPath(req.target) # SessionsPath
      \/ req.method = "DELETE" /\ ~StartsWith(UrlPath(req.target), SessionsPrefix))
    => resp = NotFoundResponse

\* C5: with a working multiplexer, once POST /sessions has created "alpha",
\* GET /sessions lists an entry with name "alpha", windows 1 and attached
\* false; once DELETE /sessions/alpha has answered 200, GET /sessions lists no
\* entry named "alpha" until a POST creates it again.
C5_RoundTrip ==
  IsList =>
    /\ hist = "created" =>
         /\ resp.status = 200 /\ resp.kind = "sessions"
         /\ \E i \in 1..Len(resp.sessions) :
              resp.sessions[i] = [name |-> Alpha, windows |-> 1, attached |-> FALSE]
    /\ hist = "deleted" =>
         /\ resp.status = 200 /\ resp.kind = "sessions"
         /\ \A i \in 1..Len(resp.sessions) : resp.sessions[i].name # Alpha

\* A GET after "alpha" was created and then deleted, with a session left to list.
C5_Witness ==
  IsList /\ hist = "deleted" /\ Len(resp.sessions) = 1

\* C6, as stated: every request a handler method receives ends in a JSON
\* response, whatever fails while it is handled.
C6_AsStated == (Done /\ req.method \in HandlerMethods) => IsJson

\* C7, as stated: GET /sessions always answers 200 with {"sessions": [...]},
\* and with {"sessions": []} when no session exists.
C7_AsStated ==
  IsList =>
    /\ resp.status = 200 /\ resp.kind = "sessions"
    /\ pre = {} => resp.sessions = <<>>

\* C7 while the binary can be run (SpecInstalled): whatever the exit code of
\* `tmux ls`, GET /sessions answers 200 with a list, the empty one when no
\* session exists.
C7_WhenBinaryRuns ==
  IsList =>
    /\ resp.status = 200 /\ resp.kind = "sessions"
    /\ pre = {} => resp.sessions = <<>>
    /\ calls = <<Call("ls", <<>>)>>

\* C8, as stated: DELETE /sessions/{name} with a valid name answers 404
\* {"error":"not_found"} whenever no session has that name, and answers 200
\* {"ok":true,"name":name} only when the session was killed, after which no
\* session has that name.
C8_AsStated ==
  (IsKill /\ MatchesPattern(KillName)) =>
    /\ KillName \notin Names(pre) => resp = NotFoundResponse
    /\ resp # NotFoundResponse =>
         /\ resp = JsonDeleted(KillName)
         /\ KillName \in Names(pre)
         /\ KillName \notin Names(sessions)

\* C8 while the binary can be run (SpecInstalled): 404 when the kill command
\* exits non-zero, 200 when it exits 0, and then the session is gone.
C8_WhenBinaryRuns ==
  (IsKill /\ MatchesPattern(KillName)) =>
    /\ resp \in {NotFoundResponse, JsonDeleted(KillName)}
    /\ KillName \notin Names(pre) => resp = NotFoundResponse
    /\ resp = JsonDeleted(KillName) =>
         KillName \in Names(pre) /\ KillName \notin Names(sessions)

\* C9: a POST /sessions whose body is missing or is not JSON is answered as
\* one whose body is the empty object: 400 {"error":"invalid_name"}, and no
\* external command is run.
C9_MalformedBodyIsEmptyObject ==
  (IsCreate /\ req.body.kind \in {"none", "malformed"}) =>
    /\ resp = InvalidNameResponse
    /\ resp = do_POST(req.target, Body("object", JAbsent), pre, "run", "run").resp
    /\ calls = <<>>
    /\ sessions = pre

C9_Witness ==
  IsCreate /\ req.body.kind = "malformed" /\ resp = InvalidNameResponse

\* C10: a request changes the set of sessions only when it is a POST answered
\* created: true, which adds exactly the session of the validated name, or a
\* DELETE answered 200, which removes exactly the session of that name; every
\* other request leaves the set as it was, and nothing of a request is kept
\* once it is finished.
C10_Frame ==
  /\ Done =>
       IF resp.kind = "created" /\ resp.created
       THEN /\ req.method = "POST"
            /\ MatchesPattern(resp.name)
            /\ resp.name \notin Names(pre)
            /\ \E s \in sessions : s.name = resp.name /\ sessions \ {s} = pre
       ELSE IF resp.kind = "deleted"
       THEN /\ req.method = "DELETE"
            /\ resp.name \in Names(pre)
            /\ sessions = {s \in pre : s.name # resp.name}
       ELSE sessions = pre
  /\ pc = "idle" => (req = NoRequest /\ resp = NoResponse /\ calls = <<>>)

\* A DELETE removed one session and left another.
C10_Witness ==
  Done /\ resp.kind = "deleted" /\ Cardinality(pre) = 2 /\ Cardinality(sessions) = 1

====
